---- MODULE Spec2Model ----
(***************************************************************************)
(* Model of intervalpy: the Interval value type (interval.py) and the     *)
(* sorted search bisect_objects (util.py).                                 *)
(*                                                                         *)
(* Numbers.  A finite number is an integer counting half units (n stands   *)
(* for n/2), so that rounding is not the identity.  math.inf is Inf,       *)
(* -math.inf is -Inf, Python's None is the value None.  Operations whose   *)
(* Python operands would be None raise TypeError; such results are the     *)
(* records Raise("TypeError"), all others Ok(value).                       *)
(***************************************************************************)
EXTENDS Integers, Sequences, FiniteSets

VARIABLES cur, recv, other, seq, op, args, out, err

vars == <<cur, recv, other, seq, op, args, out, err>>

-----------------------------------------------------------------------------
(* Bounds of the model *)

\* finite numbers are 0 .. MaxV (in half units)
MaxV == 3
\* longest sequence passed to index_range / partition
MaxLen == 3

-----------------------------------------------------------------------------
(* Numbers *)

Inf == 1000
None == -2000

Fin == 0 .. MaxV
Vals == Fin \cup {Inf, -Inf}

isinf(v) == v = Inf \/ v = -Inf

\* v + d for a finite d: an infinite v absorbs d
Add(v, d) == IF isinf(v) THEN v ELSE v + d

Min2(x, y) == IF x <= y THEN x ELSE y
Max2(x, y) == IF x >= y THEN x ELSE y
SetMin(S) == CHOOSE m \in S : \A y \in S : m <= y
SetMax(S) == CHOOSE m \in S : \A y \in S : m >= y

Ok(v) == [err |-> "none", val |-> v]
Raise(e) == [err |-> e]

-----------------------------------------------------------------------------
(* Interval: properties *)

is_empty(d) == d.end = d.start /\ (d.end_open \/ d.start_open)

is_negative_infinite(d) == d.start # d.end /\ isinf(d.start)

is_positive_infinite(d) == d.start # d.end /\ isinf(d.end)

is_infinite(d) == is_negative_infinite(d) /\ is_positive_infinite(d)

is_finite(d) == ~is_negative_infinite(d) /\ ~is_positive_infinite(d)

is_point(d) == ~is_empty(d) /\ d.start = d.end

-----------------------------------------------------------------------------
(* Interval.__init__ *)

\* The assertion of __init__ reads self.start and self.end, which the
\* constructor has just set to 0, and not the arguments.
InitAssertion(start, end) ==
    LET self_start == 0
        self_end == 0
    IN  self_end >= self_start

\* Interval.__init__ with the forced-open rule left out at the end side
New_NoForcedEnd(start, end, start_open, end_open) ==
    LET s0 == IF start = None /\ end # None THEN -Inf ELSE start
        e0 == IF end = None /\ s0 # None THEN Inf ELSE end
        collapse == e0 = s0 /\ (end_open \/ start_open)
        s1 == IF collapse THEN None ELSE s0
        e1 == IF collapse THEN None ELSE e0
        d1 == [end |-> e1, start |-> s1,
               end_open |-> end_open, start_open |-> start_open]
    IN  IF ~collapse /\ ~InitAssertion(s0, e0)
        THEN Raise("AssertionError")
        ELSE Ok([d1 EXCEPT !.start_open =
                    IF s1 # e1 /\ is_negative_infinite(d1) THEN TRUE ELSE @])

New(start, end, start_open, end_open) ==
    LET s0 == IF start = None /\ end # None THEN -Inf ELSE start
        e0 == IF end = None /\ s0 # None THEN Inf ELSE end
        collapse == e0 = s0 /\ (end_open \/ start_open)
        s1 == IF collapse THEN None ELSE s0
        e1 == IF collapse THEN None ELSE e0
        d1 == [end |-> e1, start |-> s1,
               end_open |-> end_open, start_open |-> start_open]
        d2 == IF s1 # e1 /\ is_negative_infinite(d1)
              THEN [d1 EXCEPT !.start_open = TRUE] ELSE d1
        d3 == IF s1 # e1 /\ is_positive_infinite(d2)
              THEN [d2 EXCEPT !.end_open = TRUE] ELSE d2
    IN  IF ~collapse /\ ~InitAssertion(s0, e0)
        THEN Raise("AssertionError")
        ELSE Ok(d3)

\* The constructed value; the assertion never fails for numeric arguments
Interval(start, end, start_open, end_open) ==
    New(start, end, start_open, end_open).val

\* module constants
empty == Interval(0, 0, TRUE, TRUE)
infinite == Interval(-Inf, Inf, TRUE, TRUE)

-----------------------------------------------------------------------------
(* Factories *)

point(x) == Interval(x, x, FALSE, FALSE)
closed(start, end) == Interval(start, end, FALSE, FALSE)
open(start, end) == Interval(start, end, TRUE, TRUE)
closed_open(start, end) == Interval(start, end, FALSE, TRUE)
open_closed(start, end) == Interval(start, end, TRUE, FALSE)
gt(x) == Interval(x, Inf, TRUE, TRUE)
gte(x) == Interval(x, Inf, FALSE, TRUE)
lt(x) == Interval(-Inf, x, TRUE, TRUE)
lte(x) == Interval(-Inf, x, TRUE, FALSE)

-----------------------------------------------------------------------------
(* Interval.contains *)

\* contains without the special infinite cases
contains_NoInfiniteCase(self, x, enforce_start, enforce_end) ==
    IF x = None \/ is_empty(self) THEN FALSE
    ELSE IF enforce_start /\ x < self.start THEN FALSE
    ELSE IF enforce_start /\ self.start_open /\ x = self.start THEN FALSE
    ELSE IF enforce_end /\ x > self.end THEN FALSE
    ELSE IF enforce_end /\ self.start_open /\ x = self.start THEN FALSE
    ELSE IF enforce_end /\ self.end_open /\ x = self.end THEN FALSE
    ELSE TRUE

contains(self, x, enforce_start, enforce_end) ==
    IF x = None \/ is_empty(self) THEN FALSE
    ELSE IF is_negative_infinite(self) /\ x = -Inf THEN TRUE
    ELSE IF is_positive_infinite(self) /\ x = Inf THEN TRUE
    ELSE IF enforce_start /\ x < self.start THEN FALSE
    ELSE IF enforce_start /\ self.start_open /\ x = self.start THEN FALSE
    ELSE IF enforce_end /\ x > self.end THEN FALSE
    ELSE IF enforce_end /\ self.start_open /\ x = self.start THEN FALSE
    ELSE IF enforce_end /\ self.end_open /\ x = self.end THEN FALSE
    ELSE TRUE

\* contains(x) with both sides enforced, the default
has(self, x) == contains(self, x, TRUE, TRUE)

-----------------------------------------------------------------------------
(* Transformations *)

as_closed(self) ==
    IF is_empty(self) THEN self
    ELSE Interval(self.start, self.end, FALSE, FALSE)

as_open(self) ==
    IF is_empty(self) THEN self
    ELSE Interval(self.start, self.end, TRUE, TRUE)

as_closed_open(self) ==
    IF is_empty(self) THEN self
    ELSE Interval(self.start, self.end, FALSE, TRUE)

as_open_closed(self) ==
    IF is_empty(self) THEN self
    ELSE Interval(self.start, self.end, TRUE, FALSE)

\* The functions handed to map: the identity and negation.  Negating None
\* is a TypeError.
MapFns == {"id", "neg"}
Apply(f, v) ==
    IF f = "id" THEN Ok(v)
    ELSE IF v = None THEN Raise("TypeError")
    ELSE Ok(0 - v)

map(self, f) ==
    LET s == Apply(f, self.start)
        e == Apply(f, self.end)
    IN  IF s.err # "none" THEN s
        ELSE IF e.err # "none" THEN e
        ELSE New(s.val, e.val, self.start_open, self.end_open)

\* Python's round on n/2: an integer is kept, k + 1/2 goes to the even
\* neighbour
pyround(n) ==
    IF n % 2 = 0 THEN n
    ELSE LET k == (n - 1) \div 2
         IN  IF k % 2 = 0 THEN 2 * k ELSE 2 * (k + 1)

\* method(x) for method = round: round(math.inf) is an OverflowError
RoundEnd(v) == IF isinf(v) THEN Raise("OverflowError") ELSE Ok(pyround(v))

round(self) ==
    IF is_empty(self) THEN Ok(self)
    ELSE LET start == IF ~is_negative_infinite(self)
                      THEN RoundEnd(self.start) ELSE Ok(self.start)
             end == IF ~is_positive_infinite(self)
                    THEN RoundEnd(self.end) ELSE Ok(self.end)
         IN  IF start.err # "none" THEN start
             ELSE IF end.err # "none" THEN end
             ELSE New(start.val, end.val, self.start_open, self.end_open)

offset(self, delta) ==
    IF self.start = None \/ self.end = None THEN Raise("TypeError")
    ELSE New(Add(self.start, delta), Add(self.end, delta),
             self.start_open, self.end_open)

\* Python's `a or b`: b when a is None or 0
PyOr(a, b) == IF a = None \/ a = 0 THEN b ELSE a

pad(self, default, start, end) ==
    LET ps == PyOr(PyOr(start, default), 0)
        pe == PyOr(PyOr(end, default), 0)
    IN  IF ~is_negative_infinite(self) /\ self.start = None
        THEN Raise("TypeError")
        ELSE IF ~is_positive_infinite(self) /\ self.end = None
        THEN Raise("TypeError")
        ELSE New(IF is_negative_infinite(self) THEN self.start
                 ELSE Add(self.start, 0 - ps),
                 IF is_positive_infinite(self) THEN self.end
                 ELSE Add(self.end, pe),
                 self.start_open, self.end_open)

get_gte(self) ==
    IF is_empty(self) THEN empty
    ELSE Interval(self.start, Inf, self.start_open, FALSE)

get_lte(self) ==
    IF is_empty(self) THEN empty
    ELSE Interval(-Inf, self.end, FALSE, self.end_open)

get_gt(self) ==
    IF is_empty(self) THEN empty
    ELSE Interval(self.end, Inf, ~self.end_open, FALSE)

get_lt(self) ==
    IF is_empty(self) THEN empty
    ELSE Interval(-Inf, self.start, FALSE, ~self.start_open)

-----------------------------------------------------------------------------
(* Relations between intervals *)

is_superset_of(self, v) ==
    IF is_empty(self) THEN FALSE
    ELSE IF is_empty(v) THEN TRUE
    ELSE IF self.start > v.start THEN FALSE
    ELSE IF self.start = v.start /\ self.start_open /\ ~v.start_open THEN FALSE
    ELSE IF self.end < v.end THEN FALSE
    ELSE IF self.end = v.end /\ self.end_open /\ ~v.end_open THEN FALSE
    ELSE TRUE

equals(self, interval) ==
    IF is_empty(self) /\ is_empty(interval) THEN TRUE
    ELSE /\ self.start = interval.start
         /\ self.end = interval.end
         /\ self.start_open = interval.start_open
         /\ self.end_open = interval.end_open

intersects(self, v) ==
    IF is_empty(self) THEN FALSE
    ELSE IF is_empty(v) THEN FALSE
    ELSE IF self.start <= v.start
         THEN IF self.end < v.start THEN FALSE
              ELSE IF self.end = v.start
                   THEN ~self.end_open /\ ~v.start_open
                   ELSE TRUE
         ELSE IF v.end < self.start THEN FALSE
              ELSE IF v.end = self.start
                   THEN ~v.end_open /\ ~self.start_open
                   ELSE TRUE

\* __lt__ with the empty interval below every non-empty one
lt_EmptyIsLeast(self, o) ==
    IF is_empty(self) THEN ~is_empty(o)
    ELSE IF is_empty(o) THEN FALSE
    ELSE IF self.end < o.start THEN TRUE
    ELSE IF self.end = o.start /\ (self.end_open \/ o.start_open) THEN TRUE
    ELSE FALSE

__lt__(self, o) ==
    IF is_empty(self) THEN FALSE
    ELSE IF is_empty(o) THEN TRUE
    ELSE IF self.end < o.start THEN TRUE
    ELSE IF self.end = o.start /\ (self.end_open \/ o.start_open) THEN TRUE
    ELSE FALSE

-----------------------------------------------------------------------------
(* Set algebra over a list of intervals *)

Indices(s) == 1 .. Len(s)

\* union with a boundary open if any interval reaching it is open there
union_OpenIfAny(intervals) ==
    LET ds == SelectSeq(intervals, LAMBDA d : ~is_empty(d))
        start == SetMin({ds[i].start : i \in Indices(ds)})
        end == SetMax({ds[i].end : i \in Indices(ds)})
        start_open == \E i \in Indices(ds) :
                          ds[i].start = start /\ ds[i].start_open
        end_open == \E i \in Indices(ds) :
                          ds[i].end = end /\ ds[i].end_open
    IN  IF Len(ds) = 0 THEN empty
        ELSE IF Len(ds) = 1 THEN ds[1]
        ELSE Interval(start, end, start_open, end_open)

union(intervals) ==
    LET ds == SelectSeq(intervals, LAMBDA d : ~is_empty(d))
        start == SetMin({ds[i].start : i \in Indices(ds)})
        end == SetMax({ds[i].end : i \in Indices(ds)})
        \* open if none are closed
        start_open == ~(\E i \in Indices(ds) :
                            ds[i].start = start /\ ~ds[i].start_open)
        end_open == ~(\E i \in Indices(ds) :
                            ds[i].end = end /\ ~ds[i].end_open)
    IN  IF Len(ds) = 0 THEN empty
        ELSE IF Len(ds) = 1 THEN ds[1]
        ELSE Interval(start, end, start_open, end_open)

\* intersection with a boundary open only if every interval reaching it is
\* open there
intersection_OpenIfAll(intervals) ==
    LET start == SetMax({intervals[i].start : i \in Indices(intervals)})
        end == SetMin({intervals[i].end : i \in Indices(intervals)})
        start_open == \A i \in Indices(intervals) :
                          intervals[i].start = start => intervals[i].start_open
        end_open == \A i \in Indices(intervals) :
                          intervals[i].end = end => intervals[i].end_open
    IN  IF \E i \in Indices(intervals) : is_empty(intervals[i]) THEN empty
        ELSE IF Len(intervals) = 0 THEN empty
        ELSE IF Len(intervals) = 1 THEN intervals[1]
        ELSE IF start > end THEN empty
        ELSE Interval(start, end, start_open, end_open)

intersection(intervals) ==
    LET start == SetMax({intervals[i].start : i \in Indices(intervals)})
        end == SetMin({intervals[i].end : i \in Indices(intervals)})
        \* open if any is open
        start_open == \E i \in Indices(intervals) :
                          intervals[i].start = start /\ intervals[i].start_open
        end_open == \E i \in Indices(intervals) :
                          intervals[i].end = end /\ intervals[i].end_open
    IN  IF \E i \in Indices(intervals) : is_empty(intervals[i]) THEN empty
        ELSE IF Len(intervals) = 0 THEN empty
        ELSE IF Len(intervals) = 1 THEN intervals[1]
        ELSE IF start > end THEN empty
        ELSE Interval(start, end, start_open, end_open)

-----------------------------------------------------------------------------
(* Interval.partition *)

\* The optional arguments start_open, end_open are "None", "True" or "False"
Opt == {"None", "True", "False"}

\* the start flag at a split point taken from end_open without negating it
split_start_open_NotNegated(start_open, end_open) ==
    IF end_open # "None" THEN end_open = "True"
    ELSE IF start_open # "None" THEN start_open = "True"
    ELSE FALSE

split_start_open(start_open, end_open) ==
    IF end_open # "None" THEN end_open # "True"
    ELSE IF start_open # "None" THEN start_open = "True"
    ELSE FALSE

split_end_open(start_open, end_open) ==
    IF end_open # "None" THEN end_open = "True"
    ELSE IF start_open # "None" THEN start_open # "True"
    ELSE TRUE

partition(self, xs0, start_open, end_open) ==
    LET xs == SelectSeq(xs0, LAMBDA x : has(self, x))
        len_xs == Len(xs)
        so == split_start_open(start_open, end_open)
        eo == split_end_open(start_open, end_open)
        \* the interval built in round i of the loop, i = 0 .. len_xs
        d(i) == Interval(IF i = 0 THEN self.start ELSE xs[i],
                         IF i = len_xs THEN self.end ELSE xs[i + 1],
                         IF i = 0 THEN self.start_open ELSE so,
                         IF i = len_xs THEN self.end_open ELSE eo)
        all == [k \in 1 .. len_xs + 1 |-> d(k - 1)]
    IN  IF len_xs = 0 THEN <<self>>
        ELSE SelectSeq(all, LAMBDA p : ~is_empty(p))

-----------------------------------------------------------------------------
(* bisect_objects (util.py), key = None *)

\* the while loop moving right past elements equal to x (bisect_right)
RECURSIVE bisect_loop_Rightmost(_, _, _, _)
bisect_loop_Rightmost(a, x, lo, hi) ==
    IF lo < hi
    THEN LET mid == (lo + hi) \div 2
             x_mid == a[mid + 1]
         IN  IF x_mid <= x THEN bisect_loop_Rightmost(a, x, mid + 1, hi)
             ELSE bisect_loop_Rightmost(a, x, lo, mid)
    ELSE lo

RECURSIVE bisect_loop(_, _, _, _)
bisect_loop(a, x, lo, hi) ==
    IF lo < hi
    THEN LET mid == (lo + hi) \div 2
             x_mid == a[mid + 1]
         IN  IF x_mid < x THEN bisect_loop(a, x, mid + 1, hi)
             ELSE bisect_loop(a, x, lo, mid)
    ELSE lo

bisect_objects(a, x, lo, hi) ==
    IF lo < 0 THEN Raise("ValueError")
    ELSE IF isinf(x) THEN Ok(IF x > 0 THEN hi ELSE lo)
    ELSE Ok(bisect_loop(a, x, lo, hi))

-----------------------------------------------------------------------------
(* Interval.index_range, key = None *)

RECURSIVE tighten_start(_, _, _, _)
tighten_start(self, values, i0, i1) ==
    IF i0 # i1
    THEN LET x == values[i0 + 1]
         IN  IF x < self.start /\ ~has(self, x)
             THEN tighten_start(self, values, i0 + 1, i1)
             ELSE i0
    ELSE i0

RECURSIVE tighten_end(_, _, _, _)
tighten_end(self, values, i0, i1) ==
    IF i1 # 0 /\ i0 # i1
    THEN LET x == values[i1]
         IN  IF x > self.end /\ ~has(self, x)
             THEN tighten_end(self, values, i0, i1 - 1)
             ELSE i1
    ELSE i1

index_range(self, values) ==
    LET values_len == Len(values)
        i0 == Max2(0, bisect_objects(values, self.start, 0, values_len).val - 1)
        i1 == Min2(values_len,
                   bisect_objects(values, self.end, 0, values_len).val + 1)
        j0 == tighten_start(self, values, i0, i1)
        j1 == tighten_end(self, values, j0, i1)
    IN  IF is_empty(self) THEN <<0, 0>>
        ELSE IF values_len = 0 \/ is_infinite(self) THEN <<0, values_len>>
        ELSE <<j0, j1>>

-----------------------------------------------------------------------------
(* Inputs *)

\* every value Interval(start, end, ...) with start <= end
ValidIntervals ==
    {Interval(p[1], p[2], so, eo) :
        p \in {q \in Vals \X Vals : q[1] <= q[2]},
        so \in BOOLEAN, eo \in BOOLEAN}

\* ascending sequences of at most MaxLen values
SortedSeqs ==
    {s \in UNION {[1 .. n -> Vals] : n \in 0 .. MaxLen} :
        \A i \in 1 .. Len(s) - 1 : s[i] <= s[i + 1]}

\* the numbers of the model, and None where an argument is optional
InRange(d) ==
    /\ d.start \in Vals \cup {None}
    /\ d.end \in Vals \cup {None}

\* the points a value in hand is partitioned at: at most two finite ones
SplitPoints ==
    {s \in SortedSeqs : Len(s) <= 2 /\ \A i \in 1 .. Len(s) : s[i] \in Fin}

Deltas == {-1, 1}
PadAmounts == {None, -1, 0, 1}

-----------------------------------------------------------------------------
(* The life of an Interval value: construction, then any sequence of       *)
(* transformations.  cur is the value in hand, recv the receiver of the    *)
(* last operation, err the exception it raised ("none": it returned).      *)

Init ==
    /\ cur = empty
    /\ recv = empty
    /\ other = empty
    /\ seq = <<>>
    /\ op = "init"
    /\ args = <<>>
    /\ out = FALSE
    /\ err = "none"

\* the operation named o, called with a, returned the interval d
Returned(o, a, d) ==
    /\ InRange(d)
    /\ cur' = d
    /\ recv' = empty
    /\ op' = o
    /\ args' = a
    /\ err' = "none"
    /\ UNCHANGED <<other, seq, out>>

\* the method named o of cur finished with the result r (Ok or Raise)
Finished(o, a, r) ==
    /\ r.err = "none" => InRange(r.val)
    /\ cur' = IF r.err = "none" THEN r.val ELSE cur
    /\ recv' = cur
    /\ op' = o
    /\ args' = a
    /\ err' = r.err
    /\ UNCHANGED <<other, seq, out>>

Construct ==
    \E s \in Vals, e \in Vals, so \in BOOLEAN, eo \in BOOLEAN :
        LET r == New(s, e, so, eo)
        IN  /\ r.err = "none"
            /\ Returned("Interval", <<s, e, so, eo>>, r.val)

Point == \E x \in Vals : Returned("point", <<x>>, point(x))
Closed == \E s \in Vals, e \in Vals : Returned("closed", <<s, e>>, closed(s, e))
Open == \E s \in Vals, e \in Vals : Returned("open", <<s, e>>, open(s, e))
ClosedOpen ==
    \E s \in Vals, e \in Vals :
        Returned("closed_open", <<s, e>>, closed_open(s, e))
OpenClosed ==
    \E s \in Vals, e \in Vals :
        Returned("open_closed", <<s, e>>, open_closed(s, e))
Gt == \E x \in Vals : Returned("gt", <<x>>, gt(x))
Gte == \E x \in Vals : Returned("gte", <<x>>, gte(x))
Lt == \E x \in Vals : Returned("lt", <<x>>, lt(x))
Lte == \E x \in Vals : Returned("lte", <<x>>, lte(x))
Empty == Returned("empty", <<>>, empty)
Infinite == Returned("infinite", <<>>, infinite)

AsClosed == Finished("as_closed", <<>>, Ok(as_closed(cur)))
AsOpen == Finished("as_open", <<>>, Ok(as_open(cur)))
AsClosedOpen == Finished("as_closed_open", <<>>, Ok(as_closed_open(cur)))
AsOpenClosed == Finished("as_open_closed", <<>>, Ok(as_open_closed(cur)))
Map == \E f \in MapFns : Finished("map", <<f>>, map(cur, f))
Round == Finished("round", <<>>, round(cur))
Offset == \E delta \in Deltas : Finished("offset", <<delta>>, offset(cur, delta))
Pad ==
    \E default \in PadAmounts, start \in PadAmounts, end \in PadAmounts :
        Finished("pad", <<>>, pad(cur, default, start, end))
GetGte == Finished("get_gte", <<>>, Ok(get_gte(cur)))
GetLte == Finished("get_lte", <<>>, Ok(get_lte(cur)))
GetGt == Finished("get_gt", <<>>, Ok(get_gt(cur)))
GetLt == Finished("get_lt", <<>>, Ok(get_lt(cur)))

\* partition, and one of the pieces it returned taken as the value in hand
Partition ==
    \E xs \in SplitPoints, so \in Opt, eo \in Opt :
        LET pieces == partition(cur, xs, so, eo)
        IN  \E i \in Indices(pieces) :
                Finished("partition", <<>>, Ok(pieces[i]))

\* the static functions union and intersection, of cur and another interval
Union ==
    \E o \in ValidIntervals : Returned("union", <<>>, union(<<cur, o>>))

Intersection ==
    \E o \in ValidIntervals :
        Returned("intersection", <<>>, intersection(<<cur, o>>))

Next ==
    \/ Construct \/ Point \/ Closed \/ Open \/ ClosedOpen \/ OpenClosed
    \/ Gt \/ Gte \/ Lt \/ Lte \/ Empty \/ Infinite
    \/ AsClosed \/ AsOpen \/ AsClosedOpen \/ AsOpenClosed
    \/ Offset \/ Pad \/ Map \/ Round
    \/ GetGte \/ GetLte \/ GetGt \/ GetLt
    \/ Partition \/ Union \/ Intersection

Spec == Init /\ [][Next]_vars

-----------------------------------------------------------------------------
(* The relations and the set algebra as functions of two intervals: cur    *)
(* and other are drawn from the valid intervals and stay; each action      *)
(* calls one function on them and leaves its result in out.                *)

InitAlgebra ==
    /\ cur \in ValidIntervals
    /\ other \in ValidIntervals
    /\ recv = empty
    /\ seq = <<>>
    /\ op = "init"
    /\ args = <<>>
    /\ out = FALSE
    /\ err = "none"

Called(o, a, result) ==
    /\ op' = o
    /\ args' = a
    /\ out' = result
    /\ UNCHANGED <<cur, recv, other, seq, err>>

CallIntersection == Called("intersection", <<>>, intersection(<<cur, other>>))
CallUnion == Called("union", <<>>, union(<<cur, other>>))
CallIntersects == Called("intersects", <<>>, intersects(cur, other))
CallLt == Called("__lt__", <<>>, __lt__(cur, other))
CallIsSupersetOf == Called("is_superset_of", <<>>, is_superset_of(cur, other))

NextAlgebra ==
    \/ CallIntersection \/ CallUnion \/ CallIntersects \/ CallLt
    \/ CallIsSupersetOf

SpecAlgebra == InitAlgebra /\ [][NextAlgebra]_vars

-----------------------------------------------------------------------------
(* index_range and partition as functions of an interval and an ascending  *)
(* sequence: cur and seq are drawn and stay.                               *)

InitSeq ==
    /\ cur \in ValidIntervals
    /\ seq \in SortedSeqs
    /\ recv = empty
    /\ other = empty
    /\ op = "init"
    /\ args = <<>>
    /\ out = FALSE
    /\ err = "none"

CallIndexRange == Called("index_range", <<>>, index_range(cur, seq))

CallPartition ==
    \E so \in Opt, eo \in Opt :
        Called("partition", <<so, eo>>, partition(cur, seq, so, eo))

NextSeq == CallIndexRange \/ CallPartition

SpecSeq == InitSeq /\ [][NextSeq]_vars

-----------------------------------------------------------------------------
(* Points of the real line the claims are sampled at.  The endpoints of    *)
(* the intervals are numbers of Vals; Twice(d) is d on a scale twice as    *)
(* fine, where the points of Samples lie on and between the endpoints.     *)

Twice(d) ==
    [d EXCEPT !.start = IF @ \in Fin THEN 2 * @ ELSE @,
              !.end = IF @ \in Fin THEN 2 * @ ELSE @]

Samples == (-1 .. 2 * MaxV + 1) \cup {Inf, -Inf}

\* d contains the sample point y
Holds(d, y) == has(Twice(d), y)

\* the point interval at an infinity
PointAtInf(d) == is_point(d) /\ isinf(d.start)

-----------------------------------------------------------------------------
(* Claims *)

\* C1: every non-empty Interval value reachable through the constructors
\* and the transformations has end >= start, construction with
\* end < start being an error.  (Stated as the claim has it; checked under
\* Spec, where the code violates it.)
C1_EndNotBeforeStart == ~is_empty(cur) => cur.end >= cur.start

\* C2: for an ascending sequence, index_range returns (i0, i1) with
\* 0 <= i0 <= i1 <= len(values) such that the elements at i0 .. i1-1 are
\* exactly the elements the interval contains.  (Stated as the claim has
\* it, for sequences of finite numbers; checked under SpecSeq, where the
\* code violates it.)
C2_IndexRangeIsFilter ==
    (op = "index_range" /\ \A k \in Indices(seq) : seq[k] \in Fin) =>
        /\ 0 <= out[1] /\ out[1] <= out[2] /\ out[2] <= Len(seq)
        /\ \A k \in Indices(seq) :
               has(cur, seq[k]) <=> (out[1] < k /\ k <= out[2])

\* C3, as claimed: for all valid a, b and every point x, the intersection
\* contains x exactly when a and b both contain x.
C3_AsClaimed ==
    op = "intersection" =>
        \A y \in Samples : Holds(out, y) <=> (Holds(cur, y) /\ Holds(other, y))

\* C3, amended: for all valid a, b and every point x, the intersection of
\* a and b contains x exactly when a and b both contain x, except for
\* x = +-infinity when a or b is the point interval at an infinity; and an
\* empty input makes the result empty.
C3_IntersectionPointwise ==
    op = "intersection" =>
        /\ \A y \in Samples :
               \/ isinf(y) /\ (PointAtInf(cur) \/ PointAtInf(other))
               \/ Holds(out, y) <=> (Holds(cur, y) /\ Holds(other, y))
        /\ (is_empty(cur) \/ is_empty(other)) => is_empty(out)

\* C3, witness: two overlapping non-empty intervals, open and closed at
\* the boundaries the intersection takes, have been intersected.
C3_Witness ==
    /\ op = "intersection"
    /\ cur = Interval(0, 2, TRUE, FALSE)
    /\ other = Interval(1, 2, FALSE, TRUE)
    /\ out = Interval(1, 2, FALSE, TRUE)

\* C4, as claimed: for start <= end and any flags the constructed i has
\* i.contains(start) iff not i.start_open, i.contains(end) iff not
\* i.end_open.
C4_AsClaimed ==
    (op = "Interval" /\ args[1] <= args[2]) =>
        /\ has(cur, args[1]) <=> ~cur.start_open
        /\ has(cur, args[2]) <=> ~cur.end_open

\* C4, amended: for start <= end and any flags, an empty constructed i
\* contains neither start nor end; a non-empty i contains start iff
\* i.start_open is false or i is negative-infinite (start = -infinity <
\* end), and contains end iff i.end_open is false or i is
\* positive-infinite.
C4_BoundaryMembership ==
    (op = "Interval" /\ args[1] <= args[2]) =>
        IF is_empty(cur)
        THEN ~has(cur, args[1]) /\ ~has(cur, args[2])
        ELSE /\ has(cur, args[1]) <=>
                    (~cur.start_open \/ is_negative_infinite(cur))
             /\ has(cur, args[2]) <=>
                    (~cur.end_open \/ is_positive_infinite(cur))

\* C4, witness: an interval from -infinity has been constructed; it is
\* open at its start and contains it.
C4_Witness ==
    /\ op = "Interval"
    /\ args[1] = -Inf /\ args[2] \in Fin
    /\ cur.start_open
    /\ has(cur, args[1])
    /\ ~cur.end_open /\ has(cur, args[2])

\* C5: for a non-empty s, an ascending list of points and any override,
\* partition returns non-empty intervals in ascending order that cover s
\* exactly with no gaps or overlaps: the first piece starts as s starts,
\* the last ends as s ends, each piece ends where the next starts with
\* exactly one of the two closed there, and each point is in exactly one
\* piece if s contains it and in none otherwise; with no point inside s
\* the result is [s].
C5_PartitionCoversExactly ==
    (op = "partition" /\ ~is_empty(cur)) =>
        /\ Len(out) >= 1
        /\ \A i \in Indices(out) : ~is_empty(out[i])
        /\ out[1].start = cur.start /\ out[1].start_open = cur.start_open
        /\ out[Len(out)].end = cur.end
        /\ out[Len(out)].end_open = cur.end_open
        /\ \A i \in 1 .. Len(out) - 1 :
               /\ out[i].end = out[i + 1].start
               /\ out[i].end_open # out[i + 1].start_open
        /\ \A y \in Samples :
               Cardinality({i \in Indices(out) : Holds(out[i], y)})
                   = IF Holds(cur, y) THEN 1 ELSE 0
        /\ (\A k \in Indices(seq) : ~has(cur, seq[k])) => out = <<cur>>

\* C5, witness: a closed interval has been split at a boundary point, a
\* duplicated inner point and a point outside it.
C5_Witness ==
    /\ op = "partition"
    /\ cur = closed(0, 2)
    /\ seq = <<0, 1, 1>>
    /\ args = <<"None", "False">>
    /\ Len(out) = 3

\* C6: intersects is false if either interval is empty, and otherwise true
\* unless the two are disjoint or meet only at a boundary open on a side;
\* so a.intersects(b) = b.intersects(a), and it is true exactly when
\* intersection([a, b]) is non-empty.  (Stated as the claim has it, for
\* intervals other than the point intervals at an infinity; checked under
\* SpecAlgebra, where the code violates it.)
C6_IntersectsIsNonEmptyIntersection ==
    (op = "intersects" /\ ~PointAtInf(cur) /\ ~PointAtInf(other)) =>
        /\ (is_empty(cur) \/ is_empty(other)) => out = FALSE
        /\ out = intersects(other, cur)
        /\ out = ~is_empty(intersection(<<cur, other>>))

\* C7, as claimed: empty < b is true for every non-empty b, and
\* empty < empty is false.
C7_AsClaimed ==
    (op = "__lt__" /\ is_empty(cur)) => (out <=> ~is_empty(other))

\* C7, amended: empty < b is false for every b, empty or not, and a < empty
\* is true for every non-empty a.
C7_EmptyLessThan ==
    op = "__lt__" =>
        /\ is_empty(cur) => out = FALSE
        /\ (~is_empty(cur) /\ is_empty(other)) => out = TRUE

\* C7, witness: the empty interval has been compared with a non-empty one.
C7_Witness ==
    /\ op = "__lt__"
    /\ is_empty(cur)
    /\ ~is_empty(other)
    /\ out = FALSE

\* C8: map, round, offset, pad and the as_* methods applied to the empty
\* interval return an empty interval and raise nothing.  (Stated as the
\* claim has it; checked under Spec, where the code violates it.)
Transformations ==
    {"map", "round", "offset", "pad",
     "as_closed", "as_open", "as_closed_open", "as_open_closed"}

C8_EmptyIsNoOp ==
    (op \in Transformations /\ is_empty(recv)) =>
        (err = "none" /\ is_empty(cur))

\* C9, as claimed: no reachable non-empty interval is closed at an infinite
\* endpoint.
C9_AsClaimed ==
    ~is_empty(cur) =>
        /\ cur.end = Inf => cur.end_open
        /\ cur.start = -Inf => cur.start_open

\* C9, amended: every non-empty interval with start # end that a
\* constructor, factory or derivation produces is open at an end of
\* +infinity and at a start of -infinity; the point intervals at an
\* infinity (point(inf), closed(-inf, -inf)) are closed there.
C9_ForcedOpenAtInfinity ==
    (~is_empty(cur) /\ cur.start # cur.end) =>
        /\ cur.end = Inf => cur.end_open
        /\ cur.start = -Inf => cur.start_open

\* C9, witness: get_gt, which asks for a closed end at +infinity, has
\* returned an interval open there.
C9_Witness ==
    /\ op = "get_gt"
    /\ err = "none"
    /\ cur.start \in Fin
    /\ cur.end = Inf
    /\ cur.end_open

\* C10, as claimed: for all non-empty valid a, b the union is a superset
\* of a and of b.
C10_AsClaimed ==
    (op = "union" /\ ~is_empty(cur) /\ ~is_empty(other)) =>
        (is_superset_of(out, cur) /\ is_superset_of(out, other))

\* C10, amended: for all non-empty valid a, b, neither of them the point
\* interval at an infinity, union([a, b]) is a superset of a and of b.
C10_UnionIsSuperset ==
    (/\ op = "union"
     /\ ~is_empty(cur) /\ ~is_empty(other)
     /\ ~PointAtInf(cur) /\ ~PointAtInf(other)) =>
        (is_superset_of(out, cur) /\ is_superset_of(out, other))

\* C10, witness: the union of two disjoint intervals, the first open at
\* the start, the second closed at the end, has been taken.
C10_Witness ==
    /\ op = "union"
    /\ cur = open(0, 1)
    /\ other = closed(2, 3)
    /\ out = Interval(0, 3, TRUE, FALSE)

-----------------------------------------------------------------------------
(* contains as a function of an interval, a point and the two enforce      *)
(* flags: cur is drawn and stays.                                          *)

InitContains ==
    /\ cur \in ValidIntervals
    /\ recv = empty
    /\ other = empty
    /\ seq = <<>>
    /\ op = "init"
    /\ args = <<>>
    /\ out = FALSE
    /\ err = "none"

CallContains ==
    \E x \in Vals, enforce_start \in BOOLEAN, enforce_end \in BOOLEAN :
        Called("contains", <<x, enforce_start, enforce_end>>,
               contains(cur, x, enforce_start, enforce_end))

NextContains == CallContains

SpecContains == InitContains /\ [][NextContains]_vars

\* C11: for a non-empty interval and a finite x, contains with only the
\* end enforced is true exactly when x < end or x = end with the end
\* closed, whatever start and start_open are; with only the start
\* enforced it is true exactly when x > start or x = start with the start
\* closed.  (Stated as the claim has it; checked under SpecContains, where
\* the code violates it.)
C11_OnlyEnforcedSide ==
    (op = "contains" /\ ~is_empty(cur) /\ args[1] \in Fin) =>
        /\ (~args[2] /\ args[3]) =>
               (out <=> (\/ args[1] < cur.end
                         \/ args[1] = cur.end /\ ~cur.end_open))
        /\ (args[2] /\ ~args[3]) =>
               (out <=> (\/ args[1] > cur.start
                         \/ args[1] = cur.start /\ ~cur.start_open))

-----------------------------------------------------------------------------
(* bisect_objects as a function of an ascending sequence, a number and the *)
(* bounds lo, hi of the slice searched: seq is drawn and stays.            *)

InitBisect ==
    /\ seq \in SortedSeqs
    /\ cur = empty
    /\ recv = empty
    /\ other = empty
    /\ op = "init"
    /\ args = <<>>
    /\ out = FALSE
    /\ err = "none"

\* a call with 0 <= lo <= hi <= len(a), or with lo < 0
CallBisect ==
    \E x \in Vals, lo \in -1 .. Len(seq), hi \in 0 .. Len(seq) :
        LET r == bisect_objects(seq, x, lo, hi)
        IN  /\ lo <= hi
            /\ op' = "bisect_objects"
            /\ args' = <<x, lo, hi>>
            /\ err' = r.err
            /\ out' = IF r.err = "none" THEN r.val ELSE FALSE
            /\ UNCHANGED <<cur, recv, other, seq>>

NextBisect == CallBisect

SpecBisect == InitBisect /\ [][NextBisect]_vars

\* i is the leftmost insertion point of x in a[lo:hi]
Leftmost(a, x, lo, hi, i) ==
    /\ lo <= i /\ i <= hi
    /\ \A j \in lo + 1 .. i : a[j] < x
    /\ \A j \in i + 1 .. hi : a[j] >= x

====
